---- MODULE Spec2Model ----
(***************************************************************************)
(* Model of the core_numeric reduction library (src/main.cpp).             *)
(*                                                                         *)
(* The library is a set of pure function templates.  Each one is an        *)
(* operator here, computed the way the code computes it, and the driver    *)
(* (main and its test functions) is the state machine that calls them.     *)
(*                                                                         *)
(* Number domains:                                                         *)
(*   int     32-bit two's complement.  A signed overflow is undefined      *)
(*           behaviour: the operators compute the wrapped value and flag   *)
(*           it, and the calling action lets the call either return that   *)
(*           value or trap.                                                *)
(*           A call that traps ends the process: no call follows it.       *)
(*   double  IEEE-754 binary64, round-to-nearest-even, as sign, magnitude  *)
(*           and binary exponent (value = mag * 2^e, mag odd), plus NaN.   *)
(*           Magnitudes are arbitrary-precision naturals held as limb      *)
(*           sequences, because the model checker's own integers are 32    *)
(*           bits wide.  The values of the model stay far inside the       *)
(*           normal range, so overflow to infinity, subnormals and the     *)
(*           sign of zero are not represented.                             *)
(*           Where the code adds a product to an accumulator (acc += d*d)  *)
(*           the build decides whether the product is rounded before the   *)
(*           addition or fused with it (floating-point contraction, the    *)
(*           default of GCC on targets with a fused multiply-add); the     *)
(*           operators take that decision, per addition, as an argument    *)
(*           and the calling action chooses it.                            *)
(***************************************************************************)
EXTENDS Integers, Sequences, FiniteSets, TLC

\* ---------------------------------------------------------------- int
IntMax == 2147483647
IntMin == (-IntMax) - 1

\* ------------------------------------------- arbitrary-precision naturals
\* Little-endian sequences of 15-bit limbs, no high zero limb; <<>> is zero.
Radix == 2^15

RECURSIVE MagTrim(_)
MagTrim(m) ==
    IF m = <<>> THEN m
    ELSE IF m[Len(m)] = 0 THEN MagTrim(SubSeq(m, 1, Len(m) - 1)) ELSE m

RECURSIVE MagFromNat(_)
MagFromNat(n) ==
    IF n = 0 THEN <<>> ELSE <<n % Radix>> \o MagFromNat(n \div Radix)

RECURSIVE MagAddC(_, _, _)
MagAddC(a, b, c) ==
    IF a = <<>> /\ b = <<>> THEN (IF c = 0 THEN <<>> ELSE <<c>>)
    ELSE LET x == IF a = <<>> THEN 0 ELSE Head(a)
             y == IF b = <<>> THEN 0 ELSE Head(b)
             t == x + y + c
         IN  <<t % Radix>> \o MagAddC(IF a = <<>> THEN a ELSE Tail(a),
                                      IF b = <<>> THEN b ELSE Tail(b),
                                      t \div Radix)

MagAdd(a, b) == MagTrim(MagAddC(a, b, 0))

\* -1, 0 or 1 as a < b, a = b, a > b (both without high zero limbs).
RECURSIVE MagCmp(_, _)
MagCmp(a, b) ==
    IF Len(a) # Len(b) THEN (IF Len(a) < Len(b) THEN -1 ELSE 1)
    ELSE IF a = <<>> THEN 0
    ELSE LET n == Len(a)
         IN  IF a[n] # b[n] THEN (IF a[n] < b[n] THEN -1 ELSE 1)
             ELSE MagCmp(SubSeq(a, 1, n - 1), SubSeq(b, 1, n - 1))

\* a - b for a >= b.
RECURSIVE MagSubB(_, _, _)
MagSubB(a, b, br) ==
    IF a = <<>> THEN <<>>
    ELSE LET y == IF b = <<>> THEN 0 ELSE Head(b)
             t == Head(a) - y - br
         IN  <<t % Radix>> \o MagSubB(Tail(a),
                                      IF b = <<>> THEN b ELSE Tail(b),
                                      IF t < 0 THEN 1 ELSE 0)

MagSub(a, b) == MagTrim(MagSubB(a, b, 0))

\* a * k + c for a limb-sized k.
RECURSIVE MagMulC(_, _, _)
MagMulC(a, k, c) ==
    IF a = <<>> THEN MagFromNat(c)
    ELSE LET t == Head(a) * k + c
         IN  <<t % Radix>> \o MagMulC(Tail(a), k, t \div Radix)

MagMulInt(a, k) == MagTrim(MagMulC(a, k, 0))

RECURSIVE MagMul(_, _)
MagMul(a, b) ==
    IF a = <<>> THEN <<>>
    ELSE MagAdd(MagMulC(b, Head(a), 0), <<0>> \o MagMul(Tail(a), b))

\* Quotient and remainder of a by a limb-sized k > 0.
RECURSIVE MagDivR(_, _)
MagDivR(a, k) ==
    IF a = <<>> THEN [q |-> <<>>, r |-> 0]
    ELSE LET hi == MagDivR(Tail(a), k)
             t  == hi.r * Radix + Head(a)
         IN  [q |-> <<t \div k>> \o hi.q, r |-> t % k]

MagDivInt(a, k) == MagTrim(MagDivR(a, k).q)

RECURSIVE NatBits(_)
NatBits(n) == IF n = 0 THEN 0 ELSE 1 + NatBits(n \div 2)

BitLen(m) == IF m = <<>> THEN 0 ELSE 15 * (Len(m) - 1) + NatBits(m[Len(m)])

ShiftLeft(m, s) ==
    IF m = <<>> THEN m
    ELSE MagMulInt([i \in 1..(s \div 15) |-> 0] \o m, 2^(s % 15))

ShiftRight(m, s) ==
    IF (s \div 15) >= Len(m) THEN <<>>
    ELSE MagDivInt(SubSeq(m, (s \div 15) + 1, Len(m)), 2^(s % 15))

\* Magnitude of an int, without negating IntMin.
MagOfInt(x) ==
    IF x >= 0 THEN MagFromNat(x)
    ELSE MagTrim(<<(Radix - (x % Radix)) % Radix>>
                 \o MagFromNat(-((x + Radix - 1) \div Radix)))

\* ------------------------------------------------------------- double
MantBits == 53

NaN == [nan |-> TRUE, neg |-> FALSE, mag |-> <<>>, e |-> 0]

DZero == [nan |-> FALSE, neg |-> FALSE, mag |-> <<>>, e |-> 0]

\* The number of trailing zero bits of a limb n > 0.
RECURSIVE TrailingZeros(_)
TrailingZeros(n) == IF n % 2 = 1 THEN 0 ELSE 1 + TrailingZeros(n \div 2)

RECURSIVE StripZeros(_, _)
StripZeros(mag, e) ==
    IF mag[1] = 0 THEN StripZeros(Tail(mag), e + 15)
    ELSE LET t == TrailingZeros(mag[1])
         IN  [mag |-> IF t = 0 THEN mag ELSE ShiftRight(mag, t), e |-> e + t]

\* The canonical form of (-1)^neg * mag * 2^e.
Canon(neg, mag, e) ==
    IF mag = <<>> THEN DZero
    ELSE LET s == StripZeros(mag, e)
         IN  [nan |-> FALSE, neg |-> neg, mag |-> s.mag, e |-> s.e]

\* Round-to-nearest-even of the exact value (-1)^neg * (mag + f) * 2^e, where
\* 0 <= f < 1 and f > 0 exactly when sticky.  With sticky set, mag carries
\* more than MantBits bits.
Round(neg, mag, e, sticky) ==
    LET len == BitLen(mag)
    IN  IF len <= MantBits THEN Canon(neg, mag, e)
        ELSE LET s    == len - MantBits
                 q    == ShiftRight(mag, s)
                 rem  == MagSub(mag, ShiftLeft(q, s))
                 half == ShiftLeft(<<1>>, s - 1)
                 c    == MagCmp(rem, half)
                 up   == \/ c = 1
                         \/ c = 0 /\ (sticky \/ q[1] % 2 = 1)
             IN  Canon(neg, IF up THEN MagAdd(q, <<1>>) ELSE q, e + s)

\* static_cast<double>(int): exact.
DFromInt(x) == Canon(x < 0, MagOfInt(x), 0)

DNeg(a) == IF a.nan \/ a.mag = <<>> THEN a ELSE [a EXCEPT !.neg = ~a.neg]

\* The exact sum of two finite doubles, as (-1)^neg * mag * 2^e.
ExactAdd(a, b) ==
    LET e  == IF a.e < b.e THEN a.e ELSE b.e
        am == ShiftLeft(a.mag, a.e - e)
        bm == ShiftLeft(b.mag, b.e - e)
        c  == MagCmp(am, bm)
    IN  IF a.neg = b.neg THEN Canon(a.neg, MagAdd(am, bm), e)
        ELSE IF c = 0 THEN DZero
        ELSE IF c = 1 THEN Canon(a.neg, MagSub(am, bm), e)
        ELSE Canon(b.neg, MagSub(bm, am), e)

DAdd(a, b) ==
    IF a.nan \/ b.nan THEN NaN
    ELSE LET x == ExactAdd(a, b) IN Round(x.neg, x.mag, x.e, FALSE)

DSub(a, b) == DAdd(a, DNeg(b))

DMul(a, b) ==
    IF a.nan \/ b.nan THEN NaN
    ELSE Round(a.neg # b.neg, MagMul(a.mag, b.mag), a.e + b.e, FALSE)

\* a * b + c with one rounding: the fused multiply-add.
DFma(a, b, c) ==
    IF a.nan \/ b.nan \/ c.nan THEN NaN
    ELSE LET p == Canon(a.neg # b.neg, MagMul(a.mag, b.mag), a.e + b.e)
             x == ExactAdd(p, c)
         IN  Round(x.neg, x.mag, x.e, FALSE)

\* c + a * b as the build evaluates it: "separate" rounds the product and
\* then the sum, "fused" rounds once.
MulAdd(how, a, b, c) ==
    IF how = "fused" THEN DFma(a, b, c) ELSE DAdd(c, DMul(a, b))

\* a / static_cast<double>(n) for a count n >= 0 (limb-sized).  0.0 / 0.0 is
\* NaN; the quotient of a nonzero a by zero (an infinity) does not occur.
DDivCount(a, n) ==
    IF a.nan \/ n = 0 THEN NaN
    ELSE LET scaled == [i \in 1..5 |-> 0] \o a.mag
             d      == MagDivR(scaled, n)
         IN  IF a.mag = <<>> THEN DZero
             ELSE Round(a.neg, MagTrim(d.q), a.e - 75, d.r # 0)

\* a > b on doubles (false when either is NaN).
DGreater(a, b) ==
    /\ ~a.nan /\ ~b.nan
    /\ LET d == DSub(a, b) IN d.mag # <<>> /\ ~d.neg

\* The int of the given sign and magnitude, for a value within int range
\* (built from the negated limbs when negative, so that IntMin is reached).
RECURSIVE IntOfMag(_, _)
IntOfMag(neg, m) ==
    IF m = <<>> THEN 0
    ELSE (IF neg THEN -Head(m) ELSE Head(m)) + Radix * IntOfMag(neg, Tail(m))

\* static_cast<int>(double): truncation toward zero, for a double whose
\* truncated value is within int range (outside it the conversion is
\* undefined; no call of the model converts such a value).
DToInt(a) ==
    LET m == IF a.e >= 0 THEN ShiftLeft(a.mag, a.e) ELSE ShiftRight(a.mag, -a.e)
    IN  IntOfMag(a.neg, m)

\* ------------------------------------------------- values and containers
\* A std::vector<int> or std::vector<double>: the element type, the
\* elements (ints, or doubles in the representation above) and, for an
\* empty vector, what its storage holds at position 0: <<>> when the vector
\* owns no storage (data() is null), otherwise <<v>> for the value v left
\* there (the element that clear() or pop_back() destroyed).  A non-empty
\* vector holds elems[1] there, and stale is <<>>.
IntContainer(es) == [type |-> "int", elems |-> es, stale |-> <<>>]
DoubleContainer(es) == [type |-> "double", elems |-> es, stale |-> <<>>]

\* An emptied vector that still owns its storage.
Emptied(type, v) == [type |-> type, elems |-> <<>>, stale |-> <<v>>]

\* One argument of a variadic call, or a returned number: its static type
\* and its value.
IntArg(x) == [type |-> "int", val |-> x]
DoubleArg(d) == [type |-> "double", val |-> d]

\* Q{} : the value-initialised accumulator.
ZeroOf(type) == IF type = "int" THEN 0 ELSE DZero

\* static_cast<double>(x) for an element or argument of the given type.
ToDouble(type, x) == IF type = "int" THEN DFromInt(x) ELSE x

\* int + int.  ovf says that the mathematical sum is outside int, which is
\* undefined behaviour; val is then the two's complement wrap.
IntAdd(a, b) ==
    IF b > 0 /\ a > IntMax - b
        THEN [val |-> (a - IntMax - 1) + (b - IntMax - 1), ovf |-> TRUE]
    ELSE IF b < 0 /\ a < IntMin - b
        THEN [val |-> (a + IntMax + 1) + (b + IntMax + 1), ovf |-> TRUE]
    ELSE [val |-> a + b, ovf |-> FALSE]

\* The quotient rounded toward minus infinity instead.
IntDivFloor(a, b) == a \div b

\* int / int for a divisor b > 0: the quotient rounded toward zero.
IntDiv(a, b) == IF a >= 0 THEN a \div b ELSE (a + b - 1) \div b

\* a > b on two values of one element type.
Greater(type, a, b) == IF type = "int" THEN a > b ELSE DGreater(a, b)

\* What a computation produced: its value, the static type of that value,
\* and the undefined behaviour it ran into on the way:
\*   "none"      none;
\*   "overflow"  a signed int overflow (val is the wrapped result);
\*   "divzero"   an int division by zero;
\*   "oob"       a read of container[0] of an empty container that owns
\*               storage (val is what the storage holds);
\*   "null"      a read of container[0] of an empty container that owns
\*               none.
Result(type, val, ub) == [type |-> type, val |-> val, ub |-> ub]

\* ----------------------------------------------------- collection forms
\* result += elem, for each element in order.
RECURSIVE sum_loop(_, _, _)
sum_loop(container, i, result) ==
    IF i > Len(container.elems) THEN result
    ELSE LET elem == container.elems[i]
         IN  IF container.type = "int"
             THEN LET a == IntAdd(result.val, elem)
                  IN  sum_loop(container, i + 1,
                               Result("int", a.val,
                                      IF a.ovf THEN "overflow" ELSE result.ub))
             ELSE sum_loop(container, i + 1,
                           Result("double", DAdd(result.val, elem), result.ub))

\* The accumulation begun at the second element.
sum_skip_first(container) ==
    sum_loop(container, 2, Result(container.type, ZeroOf(container.type), "none"))

sum(container) ==
    sum_loop(container, 1, Result(container.type, ZeroOf(container.type), "none"))

\* s += static_cast<double>(x), for each element in order.
RECURSIVE widen_loop(_, _, _)
widen_loop(container, i, s) ==
    IF i > Len(container.elems) THEN s
    ELSE widen_loop(container, i + 1,
                    DAdd(s, ToDouble(container.type, container.elems[i])))

mean(container) ==
    LET n == Len(container.elems)
    IN  IF container.type = "int"
        THEN LET s == sum(container)
             IN  IF n = 0 THEN Result("int", 0, "divzero")
                 ELSE Result("int", IntDiv(s.val, n), s.ub)
        ELSE Result("double", DDivCount(widen_loop(container, 1, DZero), n), "none")

\* The deviations accumulated without squaring them.
RECURSIVE dev_loop_unsquared(_, _, _, _, _)
dev_loop_unsquared(container, how, i, mu, acc) ==
    IF i > Len(container.elems) THEN acc
    ELSE LET d == DSub(ToDouble(container.type, container.elems[i]), mu)
         IN  dev_loop_unsquared(container, how, i + 1, mu, DAdd(acc, d))

\* d = static_cast<double>(x) - mu; acc += d * d, for each element in order.
\* how[i] is the build's evaluation of the i-th acc += d * d.
RECURSIVE dev_loop(_, _, _, _, _)
dev_loop(container, how, i, mu, acc) ==
    IF i > Len(container.elems) THEN acc
    ELSE LET d == DSub(ToDouble(container.type, container.elems[i]), mu)
         IN  dev_loop(container, how, i + 1, mu, MulAdd(how[i], d, d, acc))

\* The integral branch taking the truncated mean of mean() for mu.
variance_truncated_mean(container, how) ==
    LET n == Len(container.elems)
    IN  IF container.type = "int"
        THEN LET s  == sum(container)
                 mu == IF n = 0 THEN NaN ELSE DFromInt(IntDiv(s.val, n))
             IN  Result("double",
                        DDivCount(dev_loop(container, how, 1, mu, DZero), n), s.ub)
        ELSE LET mu == DDivCount(widen_loop(container, 1, DZero), n)
             IN  Result("double",
                        DDivCount(dev_loop(container, how, 1, mu, DZero), n), "none")

\* how: the build's evaluation of each acc += d * d of the loop.
variance(container, how) ==
    LET n == Len(container.elems)
    IN  IF container.type = "int"
        THEN LET s  == sum(container)
                 mu == DDivCount(DFromInt(s.val), n)
             IN  Result("double",
                        DDivCount(dev_loop(container, how, 1, mu, DZero), n), s.ub)
        ELSE LET mu == DDivCount(widen_loop(container, 1, DZero), n)
             IN  Result("double",
                        DDivCount(dev_loop(container, how, 1, mu, DZero), n), "none")

\* The candidate replaced on >= instead of >.
RECURSIVE max_loop_ge(_, _, _)
max_loop_ge(container, i, result) ==
    IF i > Len(container.elems) THEN result
    ELSE LET elem == container.elems[i]
         IN  IF ~Greater(container.type, result.val, elem)
             THEN max_loop_ge(container, i + 1, [val |-> elem, at |-> i])
             ELSE max_loop_ge(container, i + 1, result)

\* if (elem > result) result = elem, for each element in order.  The
\* candidate is [val, at]: the value, and the position it was copied from.
RECURSIVE max_loop(_, _, _)
max_loop(container, i, result) ==
    IF i > Len(container.elems) THEN result
    ELSE LET elem == container.elems[i]
         IN  IF Greater(container.type, elem, result.val)
             THEN max_loop(container, i + 1, [val |-> elem, at |-> i])
             ELSE max_loop(container, i + 1, result)

\* The candidate when the loop ends: container[0], then the loop.
max_candidate(container) ==
    max_loop(container, 1, [val |-> container.elems[1], at |-> 1])

\* On an empty container the loop does not run: the result is what the
\* read of container[0] gave.
max(container) ==
    IF Len(container.elems) = 0
    THEN (IF container.stale = <<>>
          THEN Result(container.type, ZeroOf(container.type), "null")
          ELSE Result(container.type, container.stale[1], "oob"))
    ELSE Result(container.type, max_candidate(container).val, "none")

\* The mappings the driver passes to transform_reduce:
\*   "square"  [](double x){ return x*x; }      double -> double
\*   "plus10"  [](int x){ return x + 10; }      int -> int
\*   "half"    [](int x){ return x / 2.0; }     int -> double
FuncDomain(func) == IF func = "square" THEN "double" ELSE "int"
FuncRange(func) == IF func = "plus10" THEN "int" ELSE "double"

func_apply(func, x) ==
    IF func = "square" THEN [val |-> DMul(x, x), ovf |-> FALSE]
    ELSE IF func = "plus10" THEN IntAdd(x, 10)
    ELSE [val |-> DDivCount(DFromInt(x), 2), ovf |-> FALSE]

\* The mapping whose inlined body ends in a product, which the build can
\* fuse with the addition of result += func(x).
Contractible(func) == func = "square"

\* result += func(x), for each element in order.  calls lists the arguments
\* func was applied to, in the order of the applications; trapped is that
\* list as it stood at the first signed overflow (in func or in +=), which
\* is where a build that traps on overflow ends the process; how[i] is the
\* build's evaluation of the i-th result += x * x of a contractible mapping.
RECURSIVE transform_loop(_, _, _, _, _)
transform_loop(container, func, how, i, st) ==
    IF i > Len(container.elems) THEN st
    ELSE LET x == container.elems[i]
             y == func_apply(func, x)
             a == IF FuncRange(func) = "int" THEN IntAdd(st.val, y.val)
                  ELSE IF Contractible(func)
                  THEN [val |-> MulAdd(how[i], x, x, st.val), ovf |-> FALSE]
                  ELSE [val |-> DAdd(st.val, y.val), ovf |-> FALSE]
         IN  transform_loop(container, func, how, i + 1,
                 [val     |-> a.val,
                  ub      |-> IF y.ovf \/ a.ovf THEN "overflow" ELSE st.ub,
                  calls   |-> Append(st.calls, x),
                  trapped |-> IF st.ub = "none" /\ (y.ovf \/ a.ovf)
                              THEN Append(st.calls, x) ELSE st.trapped])

\* The loop begun at the second element.
transform_reduce_skip_first(container, func, how) ==
    transform_loop(container, func, how, 2,
                   [val |-> ZeroOf(FuncRange(func)), ub |-> "none",
                    calls |-> <<>>, trapped |-> <<>>])

transform_reduce_run(container, func, how) ==
    transform_loop(container, func, how, 1,
                   [val |-> ZeroOf(FuncRange(func)), ub |-> "none",
                    calls |-> <<>>, trapped |-> <<>>])

transform_reduce(container, func, how) ==
    LET st == transform_reduce_run(container, func, how)
    IN  Result(FuncRange(func), st.val, st.ub)

\* ------------------------------------------------------- variadic forms
\* An argument as the result of evaluating it.
Operand(x) == Result(x.type, x.val, "none")

\* a + b under the usual arithmetic conversions: int + int is an int
\* addition; with a double operand the other is converted to double.
Plus(a, b) ==
    IF a.type = "int" /\ b.type = "int"
    THEN LET s == IntAdd(a.val, b.val)
         IN  Result("int", s.val,
                    IF s.ovf \/ a.ub = "overflow" \/ b.ub = "overflow"
                    THEN "overflow" ELSE "none")
    ELSE Result("double",
                DAdd(ToDouble(a.type, a.val), ToDouble(b.type, b.val)),
                IF a.ub = "overflow" \/ b.ub = "overflow" THEN "overflow" ELSE "none")

\* (xs + ...): the unary right fold x1 + (x2 + (... + xN)).
RECURSIVE sum_variadic(_)
sum_variadic(xs) ==
    IF Len(xs) = 1 THEN Operand(xs[1])
    ELSE Plus(Operand(xs[1]), sum_variadic(Tail(xs)))

\* (static_cast<double>(xs) + ...)
RECURSIVE widen_fold(_)
widen_fold(xs) ==
    IF Len(xs) = 1 THEN ToDouble(xs[1].type, xs[1].val)
    ELSE DAdd(ToDouble(xs[1].type, xs[1].val), widen_fold(Tail(xs)))

\* The quotient truncated to a whole number, as an integer division gives.
mean_variadic_truncating(xs) ==
    Result("double", DFromInt(DToInt(DDivCount(widen_fold(xs), Len(xs)))), "none")

mean_variadic(xs) ==
    Result("double", DDivCount(widen_fold(xs), Len(xs)), "none")

\* (((static_cast<double>(xs) - mean) * (static_cast<double>(xs) - mean)) + ...)
\* the right fold p1 + (p2 + (... + pN)) of the products.  how[i] is the
\* build's evaluation of the addition whose left operand is p_i; in the
\* innermost one both operands are products, and "fused_right" fuses the
\* right one where "fused" fuses the left one.
RECURSIVE dev_fold(_, _, _)
dev_fold(xs, how, mean_) ==
    LET d == DSub(ToDouble(xs[1].type, xs[1].val), mean_)
    IN  IF Len(xs) = 1 THEN DMul(d, d)
        ELSE IF how[1] = "fused_right"
        THEN LET d2 == DSub(ToDouble(xs[2].type, xs[2].val), mean_)
             IN  DFma(d2, d2, DMul(d, d))
        ELSE MulAdd(how[1], d, d, dev_fold(Tail(xs), Tail(how), mean_))

\* how: the build's evaluation of each addition of the fold of products.
variance_variadic(xs, how) ==
    LET mean_ == DDivCount(widen_fold(xs), Len(xs))
    IN  Result("double", DDivCount(dev_fold(xs, how, mean_), Len(xs)), "none")

\* ((max_val = max_val > rest ? max_val : rest), ...): left to right.
\* max_val has the type T of the first argument; the conditional has the
\* common type of max_val and rest, and the assignment converts it to T.
RECURSIVE max_fold(_, _, _)
max_fold(T, max_val, rest) ==
    IF rest = <<>> THEN max_val
    ELSE LET r      == Head(rest)
             a      == ToDouble(T, max_val)
             b      == ToDouble(r.type, r.val)
             picked == IF T = "int" /\ r.type = "int"
                       THEN (IF max_val > r.val THEN max_val ELSE r.val)
                       ELSE (IF DGreater(a, b) THEN a ELSE b)
         IN  max_fold(T,
                      IF T = "int" /\ r.type = "double" THEN DToInt(picked)
                      ELSE picked,
                      Tail(rest))

max_variadic(xs) ==
    Result(xs[1].type, max_fold(xs[1].type, xs[1].val, Tail(xs)), "none")

\* ------------------------------------------------------------ the driver
\* Bounds of the inputs the driver passes.
MaxLen == 3
MaxArgs == 3

\* The literals 0.1, 0.5 and 4.8 of the driver, and two negative ones:
\* -2.5, and -3e9, which is below every int.
Tenth == DDivCount(DFromInt(1), 10)
OneHalf == DDivCount(DFromInt(1), 2)
FourPointEight == DDivCount(DFromInt(48), 10)
MinusFiveHalves == DDivCount(DFromInt(-5), 2)
MinusThreeE9 == DMul(DFromInt(-3), DFromInt(1000000000))

IntVals == {IntMin, -3, 1, 2, IntMax}
DoubleVals == {Tenth, OneHalf, FourPointEight}

SeqsUpTo(S, n) == UNION {[1..k -> S] : k \in 0..n}

Types == {"int", "double"}

\* The vectors of an element type the driver passes: those of up to MaxLen
\* elements, the empty one among them, and the emptied ones that still own
\* storage.
Containers(type) ==
    IF type = "int"
    THEN {IntContainer(es) : es \in SeqsUpTo(IntVals, MaxLen)}
         \cup {Emptied("int", v) : v \in IntVals}
    ELSE {DoubleContainer(es) : es \in SeqsUpTo(DoubleVals, MaxLen)}
         \cup {Emptied("double", v) : v \in DoubleVals}

Funcs == {"square", "plus10", "half"}

\* No double argument is above IntMax, so every double that max_variadic
\* converts to int (the greater of an int and a double) is within int range.
ArgVals ==
    << IntArg(IntMin), IntArg(-3), IntArg(1), IntArg(IntMax),
       DoubleArg(Tenth), DoubleArg(MinusFiveHalves), DoubleArg(MinusThreeE9) >>

\* The argument lists of up to MaxArgs arguments, each list given by the
\* positions of its arguments in ArgVals; Args is the list itself.
ArgLists == UNION {[1..k -> DOMAIN ArgVals] : k \in 1..MaxArgs}

Args(ids) == [j \in DOMAIN ids |-> ArgVals[ids[j]]]

\* The evaluations a build can give the n additions acc += d * d of a loop.
\* The first one adds to 0.0, where rounding once or twice gives the same
\* value; it is counted as separate.
LoopContractions(n) ==
    {how \in [1..n -> {"separate", "fused"}] : n >= 1 => how[1] = "separate"}

\* The evaluations a build can give the n - 1 additions of the fold of n
\* products; only the innermost addition has a product on its right.
FoldContractions(n) ==
    {how \in [1..(n - 1) -> {"separate", "fused", "fused_right"}] :
        \A i \in 1..(n - 1) : how[i] = "fused_right" => i = n - 1}

VARIABLES
    pc,       \* "idle": the driver is between calls; "done": a call has ended
    call,     \* the call made: the operation and its arguments
    out,      \* how the call ended
    applied,  \* the arguments the mapping was applied to during the call
              \* (up to the trap, when the call trapped)
    contract  \* how the build evaluated each product-and-add of the call

vars == <<pc, call, out, applied, contract>>

NoCall == [op |-> "none"]
NoOutcome == [kind |-> "none"]

Returned(type, val) == [kind |-> "returned", type |-> type, val |-> val]
Trap == [kind |-> "trap"]

\* The ways a call can end, given what its computation produced.  No
\* operation of the library has another exit: there is no throw, no error
\* return and no check of the container's size in src/main.cpp.
\*   overflow  the wrapped value, or a trap (-ftrapv, a sanitizer);
\*   divzero   a trap (SIGFPE), or the quotient 0 of a target whose divide
\*             instruction does not trap;
\*   oob       the value the storage holds, or a trap (a checked
\*             operator[]);
\*   null      a trap (SIGSEGV on the read through the null data()).
Outcomes(r) ==
    IF r.ub = "none" THEN {Returned(r.type, r.val)}
    ELSE IF r.ub = "null" THEN {Trap}
    ELSE {Returned(r.type, r.val), Trap}

Init ==
    /\ pc = "idle"
    /\ call = NoCall
    /\ out = NoOutcome
    /\ applied = <<>>
    /\ contract = <<>>

Call_sum ==
    /\ pc = "idle"
    /\ \E type \in Types : \E c \in Containers(type) :
        /\ pc' = "done"
        /\ call' = [op |-> "sum", container |-> c]
        /\ out' \in Outcomes(sum(c))
        /\ applied' = <<>>
        /\ contract' = <<>>

Call_mean ==
    /\ pc = "idle"
    /\ \E type \in Types : \E c \in Containers(type) :
        /\ pc' = "done"
        /\ call' = [op |-> "mean", container |-> c]
        /\ out' \in Outcomes(mean(c))
        /\ applied' = <<>>
        /\ contract' = <<>>

Call_variance ==
    /\ pc = "idle"
    /\ \E type \in Types : \E c \in Containers(type) :
        \E how \in LoopContractions(Len(c.elems)) :
            /\ pc' = "done"
            /\ call' = [op |-> "variance", container |-> c]
            /\ out' \in Outcomes(variance(c, how))
            /\ applied' = <<>>
            /\ contract' = how

Call_max ==
    /\ pc = "idle"
    /\ \E type \in Types : \E c \in Containers(type) :
        /\ pc' = "done"
        /\ call' = [op |-> "max", container |-> c]
        /\ out' \in Outcomes(max(c))
        /\ applied' = <<>>
        /\ contract' = <<>>

Call_transform_reduce ==
    /\ pc = "idle"
    /\ \E f \in Funcs : \E c \in Containers(FuncDomain(f)) :
        \E how \in IF Contractible(f) THEN LoopContractions(Len(c.elems))
                   ELSE {<<>>} :
            /\ pc' = "done"
            /\ call' = [op |-> "transform_reduce", container |-> c, func |-> f]
            /\ out' \in Outcomes(transform_reduce(c, f, how))
            /\ applied' = IF out'.kind = "trap"
                          THEN transform_reduce_run(c, f, how).trapped
                          ELSE transform_reduce_run(c, f, how).calls
            /\ contract' = how

Call_sum_variadic ==
    /\ pc = "idle"
    /\ \E ids \in ArgLists :
        /\ pc' = "done"
        /\ call' = [op |-> "sum_variadic", xs |-> Args(ids)]
        /\ out' \in Outcomes(sum_variadic(Args(ids)))
        /\ applied' = <<>>
        /\ contract' = <<>>

Call_mean_variadic ==
    /\ pc = "idle"
    /\ \E ids \in ArgLists :
        /\ pc' = "done"
        /\ call' = [op |-> "mean_variadic", xs |-> Args(ids)]
        /\ out' \in Outcomes(mean_variadic(Args(ids)))
        /\ applied' = <<>>
        /\ contract' = <<>>

Call_variance_variadic ==
    /\ pc = "idle"
    /\ \E ids \in ArgLists :
        \E how \in FoldContractions(Len(ids)) :
            /\ pc' = "done"
            /\ call' = [op |-> "variance_variadic", xs |-> Args(ids)]
            /\ out' \in Outcomes(variance_variadic(Args(ids), how))
            /\ applied' = <<>>
            /\ contract' = how

Call_max_variadic ==
    /\ pc = "idle"
    /\ \E ids \in ArgLists :
        /\ pc' = "done"
        /\ call' = [op |-> "max_variadic", xs |-> Args(ids)]
        /\ out' \in Outcomes(max_variadic(Args(ids)))
        /\ applied' = <<>>
        /\ contract' = <<>>

\* The driver prints the result and goes on to its next call.  After a trap
\* there is no driver left to do so.
Return ==
    /\ pc = "done"
    /\ out.kind = "returned"
    /\ pc' = "idle"
    /\ call' = NoCall
    /\ out' = NoOutcome
    /\ applied' = <<>>
    /\ contract' = <<>>

Next ==
    \/ Call_sum
    \/ Call_mean
    \/ Call_variance
    \/ Call_max
    \/ Call_transform_reduce
    \/ Call_sum_variadic
    \/ Call_mean_variadic
    \/ Call_variance_variadic
    \/ Call_max_variadic
    \/ Return

Spec == Init /\ [][Next]_vars

\* ---------------------------------------------------------------------
\* Properties.  Done(op) is the state the driver is in when a call of op
\* has ended; the properties relate the call's arguments to its outcome.
\* ---------------------------------------------------------------------
Done(op) == pc = "done" /\ call.op = op

Front(s) == SubSeq(s, 1, Len(s) - 1)
Last(s) == s[Len(s)]

AllEqual(s) == \A i, j \in DOMAIN s : s[i] = s[j]

\* Exact arithmetic on finite doubles, for stating error bounds.
ExactTimes(a, k) == Canon(a.neg, MagMulInt(a.mag, k), a.e)
ExactAbsDiff(a, b) == [ExactAdd(a, DNeg(b)) EXCEPT !.neg = FALSE]
ExactLeq(a, b) == LET d == ExactAdd(a, DNeg(b)) IN d.mag = <<>> \/ d.neg
TimesPow2(a, k) == IF a.mag = <<>> THEN a ELSE [a EXCEPT !.e = @ + k]
\* The unit in the last place of a nonzero double.
Ulp(a) == [nan |-> FALSE, neg |-> FALSE, mag |-> <<1>>,
           e |-> a.e + BitLen(a.mag) - MantBits]

\* The mathematical sum of a sequence of ints whose running sums, taken
\* from the left, all lie within int; FitsInt says that they do.
RECURSIVE MathSum(_)
MathSum(s) == IF s = <<>> THEN 0 ELSE MathSum(Front(s)) + Last(s)

RECURSIVE FitsInt(_)
FitsInt(s) ==
    \/ s = <<>>
    \/ /\ FitsInt(Front(s))
       /\ ~IntAdd(MathSum(Front(s)), Last(s)).ovf

\* The left fold of a sequence with the addition of its type, from zero.
RECURSIVE AdditiveFold(_, _)
AdditiveFold(type, s) ==
    IF s = <<>> THEN ZeroOf(type)
    ELSE IF type = "int" THEN IntAdd(AdditiveFold(type, Front(s)), Last(s)).val
    ELSE DAdd(AdditiveFold(type, Front(s)), Last(s))

\* The same values as a vector<double> and as an argument list.
AsDoubles(c) == DoubleContainer([i \in DOMAIN c.elems |-> DFromInt(c.elems[i])])
AsArgs(c) == [i \in DOMAIN c.elems |-> IntArg(c.elems[i])]

ArgDouble(x) == ToDouble(x.type, x.val)

\* Every product rounded before it is added.
Separate(n) == [i \in 1..n |-> "separate"]

\* |v - w| <= n * 2^-51 * max(v, w), for doubles v, w >= 0.
Close(v, w, n) ==
    /\ ~v.nan /\ ~v.neg /\ ~w.nan /\ ~w.neg
    /\ ExactLeq(TimesPow2(ExactAbsDiff(v, w), 51),
                ExactTimes(IF ExactLeq(v, w) THEN w ELSE v, n))

\* C1: mean, variance and max of an empty sequence end in an explicit
\* EmptyInput failure (never a numeric value, a division by a zero count or
\* a read outside the sequence).  The code has no such exit: the call traps,
\* or returns NaN or an indeterminate value.
C1_EmptyInputFailure ==
    (/\ pc = "done"
     /\ call.op \in {"mean", "variance", "max"}
     /\ call.container.elems = <<>>)
        => out.kind = "EmptyInput"

\* C2: for a non-empty sequence of ints, mean returns an int q with
\* sum(s) = q * len(s) + r, where |r| < len(s) and r is zero or has the sign
\* of sum(s): the quotient of sum(s) by the count, rounded toward zero.
C2_MeanTruncates ==
    (/\ Done("mean")
     /\ call.container.type = "int"
     /\ call.container.elems # <<>>
     /\ out.kind = "returned")
        => LET n == Len(call.container.elems)
               S == sum(call.container).val
               r == S - out.val * n
           IN  /\ out.type = "int"
               /\ -n < r /\ r < n
               /\ r = 0 \/ (r > 0) = (S > 0)

\* A mean of a negative sum that the count does not divide has been taken.
C2_Witness ==
    /\ Done("mean")
    /\ call.container.type = "int"
    /\ Len(call.container.elems) = 2
    /\ FitsInt(call.container.elems)
    /\ MathSum(call.container.elems) = -1
    /\ out = Returned("int", 0)

\* C3: for a non-empty sequence, max returns an element of the sequence
\* that no element exceeds; the candidate starts as the first element, is
\* replaced in an iteration only by a strictly greater element, and ends at
\* the first position that holds the maximal value.
C3_MaxFirstMaximal ==
    (Done("max") /\ call.container.elems # <<>>)
        => LET c  == call.container
               es == c.elems
               Candidate(k) ==
                   max_loop([c EXCEPT !.elems = SubSeq(es, 1, k)], 1,
                            [val |-> es[1], at |-> 1])
           IN  /\ out.kind = "returned"
               /\ out.type = c.type
               /\ \E i \in DOMAIN es : es[i] = out.val
               /\ \A i \in DOMAIN es : ~Greater(c.type, es[i], out.val)
               /\ Candidate(0) = [val |-> es[1], at |-> 1]
               /\ \A k \in DOMAIN es :
                     \/ Candidate(k) = Candidate(k - 1)
                     \/ /\ Greater(c.type, es[k], Candidate(k - 1).val)
                        /\ Candidate(k) = [val |-> es[k], at |-> k]
               /\ Candidate(Len(es)).val = out.val
               /\ \A i \in DOMAIN es :
                     es[i] = out.val => Candidate(Len(es)).at <= i

\* A maximum that was not the first element and that occurs twice.
C3_Witness ==
    /\ Done("max")
    /\ Len(call.container.elems) = 3
    /\ call.container.elems[1] # call.container.elems[2]
    /\ call.container.elems[2] = call.container.elems[3]
    /\ out.kind = "returned"
    /\ out.val = call.container.elems[2]

\* C4 as claimed: for a non-empty sequence, variance(s) >= 0, and
\* variance(s) = 0 exactly when all elements are equal.  Stated for the
\* calls that run into no int overflow, where the code's result is defined.
C4_ZeroIffAllEqual ==
    (/\ Done("variance")
     /\ call.container.elems # <<>>
     /\ call.container.type = "int" => FitsInt(call.container.elems)
     /\ out.kind = "returned")
        => /\ ~out.val.nan /\ ~out.val.neg
           /\ (out.val = DZero) <=> AllEqual(call.container.elems)

\* C4 as amended: for a non-empty sequence, variance(s) >= 0; and for a
\* sequence of ints whose running sums stay within int, variance(s) = 0
\* exactly when all elements are equal.
C4_NonNegativeZeroIffEqualInts ==
    (Done("variance") /\ call.container.elems # <<>> /\ out.kind = "returned")
        => /\ out.type = "double"
           /\ ~out.val.nan /\ ~out.val.neg
           /\ (call.container.type = "int" /\ FitsInt(call.container.elems))
                 => ((out.val = DZero) <=> AllEqual(call.container.elems))

\* A variance of three equal ints has been taken, and is zero.
C4_Witness ==
    /\ Done("variance")
    /\ call.container.type = "int"
    /\ Len(call.container.elems) = 3
    /\ AllEqual(call.container.elems)
    /\ FitsInt(call.container.elems)
    /\ out = Returned("double", DZero)

\* C5: sum returns the left fold of the elements with the addition of the
\* element type, from zero; for ints whose running sums stay within int
\* that is their mathematical sum; for the empty sequence it returns zero
\* and no error.
C5_SumIsAdditiveFold ==
    Done("sum")
        => LET c == call.container
           IN  /\ out.kind = "returned"
                     => /\ out.type = c.type
                        /\ out.val = AdditiveFold(c.type, c.elems)
               /\ (c.type = "int" /\ FitsInt(c.elems))
                     => out = Returned("int", MathSum(c.elems))
               /\ c.elems = <<>> => out = Returned(c.type, ZeroOf(c.type))

\* A sum of three ints, not all equal, has been returned.
C5_Witness ==
    /\ Done("sum")
    /\ call.container.type = "int"
    /\ Len(call.container.elems) = 3
    /\ ~AllEqual(call.container.elems)
    /\ FitsInt(call.container.elems)
    /\ out.kind = "returned"

\* C6 as claimed: transform_reduce applies the mapping to each element
\* once, in sequence order, and returns the left fold of the mapped values
\* with the addition of the mapping's result type, from that type's zero;
\* for the empty sequence it returns that zero without applying the mapping.
C6_TransformReduceIsMappedFold ==
    (Done("transform_reduce") /\ out.kind = "returned")
        => LET c      == call.container
               R      == FuncRange(call.func)
               mapped == [i \in DOMAIN c.elems |->
                              func_apply(call.func, c.elems[i]).val]
           IN  /\ applied = c.elems
               /\ out.type = R
               /\ out.val = AdditiveFold(R, mapped)
               /\ c.elems = <<>> => (out.val = ZeroOf(R) /\ applied = <<>>)

\* C6 as amended: transform_reduce applies the mapping to each element
\* once, in sequence order, and accumulates from the zero of the mapping's
\* result type; for the empty sequence it returns that zero without applying
\* the mapping.  The result is the left fold of the mapped values when the
\* result type is int, or when the build rounds each mapped value before
\* adding it; where the build fuses the product x * x with the addition,
\* the result is within N * 2^-51 (relative) of that fold.
C6_MappedFoldUpToContraction ==
    (Done("transform_reduce") /\ out.kind = "returned")
        => LET c      == call.container
               R      == FuncRange(call.func)
               N      == Len(c.elems)
               mapped == [i \in DOMAIN c.elems |->
                              func_apply(call.func, c.elems[i]).val]
               fold   == AdditiveFold(R, mapped)
           IN  /\ applied = c.elems
               /\ out.type = R
               /\ (R = "int" \/ contract \in {<<>>, Separate(N)})
                     => out.val = fold
               /\ Contractible(call.func) => Close(out.val, fold, N)
               /\ c.elems = <<>> => (out.val = ZeroOf(R) /\ applied = <<>>)

\* A transform_reduce of x * x over three elements, fused by the build, has
\* returned a value that is not the fold of the rounded squares.
C6_Witness ==
    /\ Done("transform_reduce")
    /\ call.func = "square"
    /\ Len(call.container.elems) = 3
    /\ Len(applied) = 3
    /\ contract # Separate(3)
    /\ out.kind = "returned"
    /\ out.val # AdditiveFold("double",
                     [i \in 1..3 |-> DMul(call.container.elems[i],
                                          call.container.elems[i])])

\* C7 as claimed: N * mean_variadic(x1..xN) == x1 + ... + xN, both sides
\* evaluated in double as the program would evaluate them.
C7_ExactAverage ==
    Done("mean_variadic")
        => /\ out.kind = "returned"
           /\ DMul(DFromInt(Len(call.xs)), out.val) = widen_fold(call.xs)

\* C7 as amended: mean_variadic returns the untruncated average rounded to
\* double: with S the double sum of the arguments (the exact sum when all
\* are ints), the result m satisfies |N*m - S| <= N*ulp(m)/2; for int
\* arguments whose int sum N divides it is exactly the quotient, and
\* otherwise it differs from the collection mean of the same values.
C7_RoundedAverage ==
    Done("mean_variadic")
        => LET xs   == call.xs
               N    == Len(xs)
               S    == widen_fold(xs)
               m    == out.val
               ints == \A i \in DOMAIN xs : xs[i].type = "int"
               vals == [i \in DOMAIN xs |-> xs[i].val]
           IN  /\ out.kind = "returned" /\ out.type = "double"
               /\ ~m.nan
               /\ (m = DZero) <=> (S = DZero)
               /\ m # DZero =>
                     ExactLeq(TimesPow2(ExactAbsDiff(ExactTimes(m, N), S), 1),
                              ExactTimes(Ulp(m), N))
               /\ (ints /\ FitsInt(vals)) =>
                     /\ S = DFromInt(MathSum(vals))
                     /\ (MathSum(vals) % N = 0) =>
                           m = DFromInt(MathSum(vals) \div N)
                     /\ (MathSum(vals) % N # 0) =>
                           m # DFromInt(mean(IntContainer(vals)).val)

\* A mean_variadic of ints whose sum the count does not divide.
C7_Witness ==
    /\ Done("mean_variadic")
    /\ Len(call.xs) = 3
    /\ \A i \in DOMAIN call.xs : call.xs[i].type = "int"
    /\ call.xs[1].val = 1 /\ call.xs[2].val = 1 /\ call.xs[3].val = -3
    /\ out.kind = "returned"
    /\ out.val # DFromInt(0)

\* C8: max_variadic returns, in the common type of its arguments, a value
\* equal to one of the arguments that no argument exceeds.  The code keeps
\* the running maximum in the type of the first argument, so a double
\* assigned to it is truncated.
C8_MaxVariadicCommonType ==
    Done("max_variadic")
        => LET xs == call.xs
               common == IF \E i \in DOMAIN xs : xs[i].type = "double"
                         THEN "double" ELSE "int"
               r == ToDouble(out.type, out.val)
           IN  /\ out.kind = "returned"
               /\ out.type = common
               /\ \E i \in DOMAIN xs : ArgDouble(xs[i]) = r
               /\ \A i \in DOMAIN xs : ~DGreater(ArgDouble(xs[i]), r)

\* C9 as claimed: for a non-empty list of ints, variance over the int
\* sequence, variance over the same values as doubles and variance_variadic
\* of the same values return the same value, however the build evaluates
\* them.  Stated for the lists whose running sums stay within int, where the
\* code's result is defined.
C9_VarianceFormsAgree ==
    (/\ Done("variance")
     /\ call.container.type = "int"
     /\ call.container.elems # <<>>
     /\ FitsInt(call.container.elems))
        => LET c == call.container
               n == Len(c.elems)
           IN  /\ out.kind = "returned"
               /\ \A how \in LoopContractions(n) :
                     out.val = variance(AsDoubles(c), how).val
               /\ \A how \in FoldContractions(n) :
                     out.val = variance_variadic(AsArgs(c), how).val

\* C9 as amended: for a non-empty list of ints whose running sums stay
\* within int, the integral and the floating branch of variance return the
\* same double when the build evaluates the two loops alike, and the three
\* forms agree up to rounding however the build evaluates them: any two
\* results differ by at most N * 2^-51 times the greater of them.
C9_VarianceFormsAgreeUpToRounding ==
    (/\ Done("variance")
     /\ call.container.type = "int"
     /\ call.container.elems # <<>>
     /\ FitsInt(call.container.elems))
        => LET c == call.container
               n == Len(c.elems)
           IN  /\ out = Returned("double", variance(AsDoubles(c), contract).val)
               /\ \A how \in LoopContractions(n) :
                     Close(variance(AsDoubles(c), how).val, out.val, n)
               /\ \A how \in FoldContractions(n) :
                     Close(variance_variadic(AsArgs(c), how).val, out.val, n)

\* A variance of three ints on which variance_variadic differs in the last
\* place, both with every product rounded before it is added.
C9_Witness ==
    /\ Done("variance")
    /\ call.container.type = "int"
    /\ Len(call.container.elems) = 3
    /\ FitsInt(call.container.elems)
    /\ contract = Separate(3)
    /\ out.kind = "returned"
    /\ out.val # variance_variadic(AsArgs(call.container), Separate(2)).val

\* C10: with arguments of mixed types, sum_variadic returns the sum of the
\* arguments all promoted to double: no partial sum is taken in int.  The
\* code folds from the right with the type of each pair of operands, so two
\* adjacent int arguments are added in int.
C10_SumVariadicPromotesFirst ==
    (/\ Done("sum_variadic")
     /\ \E i \in DOMAIN call.xs : call.xs[i].type = "double"
     /\ out.kind = "returned")
        => out = Returned("double", widen_fold(call.xs))

====
